---------------------------- MODULE Spec2Model ----------------------------
(***************************************************************************)
(* Model of v2/pkg/reporting/issues/jira/jira.go: the Jira issue tracker   *)
(* integration of nuclei.  New builds the client, CreateIssue formats an   *)
(* event and sends one create request, jiraFormatDescription renders the   *)
(* event in Jira markup.                                                   *)
(*                                                                         *)
(* Go strings are TLA+ strings (\o is concatenation, SubSeq a substring).  *)
(* A Go map is a function; the order in which `range` visits it is not     *)
(* specified by the language, so every formatter of a map takes the visit  *)
(* order as an argument that the calling action chooses.                   *)
(***************************************************************************)
EXTENDS Integers, Sequences, FiniteSets

VARIABLES
    i,          \* the *Integration New returned (Nil before, and after a failed New)
    newErr,     \* the error New returned last (Unset: New not called)
    cfg,        \* the *Options the caller passed to New last (Unset: New not called)
    pc,         \* per caller: position in CreateIssue
    event,      \* per caller: the event argument of the call in progress
    issueData,  \* per caller: the *jira.Issue handed to Issue.Create (line 64)
    outcome,    \* per caller: what Issue.Create returned for that request
    ret,        \* per caller: what CreateIssue returned
    calls,      \* CreateIssue invocations so far
    requests,   \* create requests handed to the tracker so far
    lastSent,   \* the request the tracker received last, with the event it was built from
    fpc,        \* jiraFormatDescription on its own: "input" or "formatted"
    fEvent,     \* jiraFormatDescription on its own: the event argument
    fDesc       \* jiraFormatDescription on its own: the string returned for fEvent

vars == <<i, newErr, cfg, pc, event, issueData, outcome, ret, calls, requests, lastSent,
          fpc, fEvent, fDesc>>

protoVars ==
    <<i, newErr, cfg, pc, event, issueData, outcome, ret, calls, requests, lastSent>>
fmtVars == <<fpc, fEvent, fDesc>>

\* Go's nil
Nil == [nil |-> TRUE]
\* a Go error value with the given message (err.Error())
Errorf(msg) == [Error |-> msg]
\* a model slot that holds no value yet
Unset == [unset |-> TRUE]

-----------------------------------------------------------------------------
(* Bounds *)

NumCallers == 2
MaxCalls == 3
MaxInfo == 2
MaxExtracted == 2
MaxMeta == 2

-----------------------------------------------------------------------------
(* Text helpers used by the properties (not part of the program) *)

\* sub occurs in s
Contains(s, sub) ==
    \E k \in 1..(Len(s) - Len(sub) + 1) : SubSeq(s, k, k + Len(sub) - 1) = sub

\* s split at every "\n": the lines of s (a trailing "\n" yields a last empty line)
Lines(s) ==
    LET nl == {k \in 1..Len(s) : SubSeq(s, k, k) = "\n"}
        \* the position of the j-th "\n"; 0 before the first, Len(s) + 1 after the last
        at(j) == IF j = 0 THEN 0
                 ELSE IF j > Cardinality(nl) THEN Len(s) + 1
                 ELSE CHOOSE k \in nl : Cardinality({m \in nl : m < k}) = j - 1
    IN  [j \in 1..(Cardinality(nl) + 1) |-> SubSeq(s, at(j - 1) + 1, at(j) - 1)]

\* the positions of line l in a sequence of lines
Positions(ls, l) == {k \in 1..Len(ls) : ls[k] = l}

\* all the orders in which the entries of a set can be visited
Perms(S) ==
    {f \in [1..Cardinality(S) -> S] : \A a, b \in 1..Cardinality(S) : a # b => f[a] # f[b]}

-----------------------------------------------------------------------------
(* Library functions the formatter calls *)

Digits == "0123456789"
LowerCase == "abcdefghijklmnopqrstuvwxyz"
UpperCase == "ABCDEFGHIJKLMNOPQRSTUVWXYZ"

\* strconv.Itoa for n >= 0
RECURSIVE Itoa(_)
Itoa(n) ==
    IF n < 10 THEN SubSeq(Digits, n + 1, n + 1)
    ELSE Itoa(n \div 10) \o SubSeq(Digits, (n % 10) + 1, (n % 10) + 1)

\* n in decimal, zero-padded on the left to width w
RECURSIVE Pad(_, _)
Pad(s, w) == IF Len(s) >= w THEN s ELSE Pad("0" \o s, w)

\* strings.ToUpper, ASCII letters
ToUpperChar(c) ==
    IF \E k \in 1..26 : SubSeq(LowerCase, k, k) = c
    THEN LET k == CHOOSE k \in 1..26 : SubSeq(LowerCase, k, k) = c
         IN  SubSeq(UpperCase, k, k)
    ELSE c

RECURSIVE ToUpper(_)
ToUpper(s) ==
    IF s = "" THEN ""
    ELSE ToUpperChar(SubSeq(s, 1, 1)) \o ToUpper(SubSeq(s, 2, Len(s)))

ShortDayNames == <<"Sun", "Mon", "Tue", "Wed", "Thu", "Fri", "Sat">>
ShortMonthNames == <<"Jan", "Feb", "Mar", "Apr", "May", "Jun",
                     "Jul", "Aug", "Sep", "Oct", "Nov", "Dec">>

\* time.Time.Format("Mon Jan 2 15:04:05 -0700 MST 2006"); offset in minutes east of UTC
TimestampFormat(t) ==
    LET abs == IF t.offset < 0 THEN -t.offset ELSE t.offset
    IN  ShortDayNames[t.weekday + 1] \o " " \o ShortMonthNames[t.month] \o " "
        \o Itoa(t.day) \o " "
        \o Pad(Itoa(t.hour), 2) \o ":" \o Pad(Itoa(t.minute), 2) \o ":"
        \o Pad(Itoa(t.second), 2) \o " "
        \o (IF t.offset < 0 THEN "-" ELSE "+")
        \o Pad(Itoa(abs \div 60), 2) \o Pad(Itoa(abs % 60), 2) \o " "
        \o t.zone \o " " \o Pad(Itoa(t.year), 4)

\* types.ToString: a metadata value, of whatever underlying type, as text
ToString(v) ==
    CASE v.type = "string" -> v.val
      [] v.type = "int" -> IF v.val < 0 THEN "-" \o Itoa(-v.val) ELSE Itoa(v.val)
      [] v.type = "bool" -> IF v.val THEN "true" ELSE "false"

\* format.GetMatchedTemplate: the display name of the template that matched
GetMatchedTemplate(e) == e.TemplateID

\* format.Summary: the one-line title of the issue
Summary(e) == "[" \o GetMatchedTemplate(e) \o "] found on " \o e.Host

-----------------------------------------------------------------------------
(* jiraFormatDescription *)

\* the key passed to Sprintf for both verbs
RECURSIVE TemplateInformationRows_KeyTwice(_, _)
TemplateInformationRows_KeyTwice(info, order) ==
    IF order = <<>> THEN ""
    ELSE "| " \o Head(order) \o " | " \o Head(order) \o " |\n"
         \o TemplateInformationRows_KeyTwice(info, Tail(order))

\* lines 94-96: one table row per entry of event.Info, in the order range visits them
RECURSIVE TemplateInformationRows(_, _)
TemplateInformationRows(info, order) ==
    IF order = <<>> THEN ""
    ELSE "| " \o Head(order) \o " | " \o info[Head(order)] \o " |\n"
         \o TemplateInformationRows(info, Tail(order))

\* the bullets prepended instead of appended
RECURSIVE ExtractedResultsList_Reversed(_)
ExtractedResultsList_Reversed(results) ==
    IF results = <<>> THEN ""
    ELSE ExtractedResultsList_Reversed(Tail(results)) \o "- " \o Head(results) \o "\n"

\* lines 107-111: one bullet per extracted result, in slice order
RECURSIVE ExtractedResultsList(_)
ExtractedResultsList(results) ==
    IF results = <<>> THEN ""
    ELSE "- " \o Head(results) \o "\n" \o ExtractedResultsList(Tail(results))

\* lines 116-122: one bullet per metadata entry, in the order range visits them
RECURSIVE MetadataList(_, _)
MetadataList(meta, order) ==
    IF order = <<>> THEN ""
    ELSE "- " \o Head(order) \o ": " \o ToString(meta[Head(order)]) \o "\n"
         \o MetadataList(meta, Tail(order))

\* the section written only when both the results and the metadata are there
ExtraInformation_BothNeeded(e, metaOrder) ==
    IF Len(e.ExtractedResults) > 0 /\ Cardinality(DOMAIN e.Metadata) > 0
    THEN "*Extra Information*\n\n"
         \o "*Extracted results*:\n\n" \o ExtractedResultsList(e.ExtractedResults) \o "\n"
         \o "*Metadata*:\n\n" \o MetadataList(e.Metadata, metaOrder) \o "\n"
    ELSE ""

\* lines 103-125
ExtraInformation(e, metaOrder) ==
    IF Len(e.ExtractedResults) > 0 \/ Cardinality(DOMAIN e.Metadata) > 0
    THEN "*Extra Information*\n\n"
         \o (IF Len(e.ExtractedResults) > 0
             THEN "*Extracted results*:\n\n"
                  \o ExtractedResultsList(e.ExtractedResults) \o "\n"
             ELSE "")
         \o (IF Cardinality(DOMAIN e.Metadata) > 0
             THEN "*Metadata*:\n\n" \o MetadataList(e.Metadata, metaOrder) \o "\n"
             ELSE "")
    ELSE ""

\* lines 78-128; infoOrder and metaOrder are the orders in which the two range
\* loops visit event.Info and event.Metadata
jiraFormatDescription(e, infoOrder, metaOrder) ==
    "*Details*: *" \o GetMatchedTemplate(e) \o "* " \o " matched at " \o e.Host
    \o "\n\n*Protocol*: " \o ToUpper(e.Type)
    \o "\n\n*Full URL*: " \o e.Matched
    \o "\n\n*Timestamp*: " \o TimestampFormat(e.Timestamp)
    \o "\n\n*Template Information*\n\n| Key | Value |\n"
    \o TemplateInformationRows(e.Info, infoOrder)
    \o "\n*Request*\n\n{code}\n" \o e.Request
    \o "\n{code}\n\n*Response*\n\n{code}\n" \o e.Response
    \o "\n{code}\n\n"
    \o ExtraInformation(e, metaOrder)

\* every description a call of jiraFormatDescription(e) can return
Descriptions(e) ==
    {jiraFormatDescription(e, io, mo) : io \in Perms(DOMAIN e.Info),
                                        mo \in Perms(DOMAIN e.Metadata)}

-----------------------------------------------------------------------------
(* Events *)

InfoKeys == <<"name", "severity", "author", "tags">>
InfoValues == <<"Git Config Disclosure", "medium", "pdteam", "config,git">>

\* event.Info with the first n informational entries
InfoMap(n) == [k \in {InfoKeys[j] : j \in 1..n} |->
                 InfoValues[CHOOSE j \in 1..n : InfoKeys[j] = k]]

MetaKeys == <<"port", "tls", "banner", "retries">>
MetaValues == <<[type |-> "int", val |-> 8443], [type |-> "bool", val |-> TRUE],
                [type |-> "string", val |-> "nginx/1.18"], [type |-> "int", val |-> -1]>>

\* event.Metadata with the first n extra entries, of mixed underlying types
MetaMap(n) == [k \in {MetaKeys[j] : j \in 1..n} |->
                 MetaValues[CHOOSE j \in 1..n : MetaKeys[j] = k]]

ExtractedStrings == {"[core]", "bare = false"}

\* event.ExtractedResults: every slice of at most MaxExtracted strings (nil is len 0)
ExtractedSeqs == UNION {[1..n -> ExtractedStrings] : n \in 0..MaxExtracted}

Timestamps ==
    {[weekday |-> 2, month |-> 11, day |-> 3, hour |-> 9, minute |-> 5, second |-> 7,
      offset |-> -420, zone |-> "MST", year |-> 2026],
     [weekday |-> 0, month |-> 1, day |-> 31, hour |-> 23, minute |-> 59, second |-> 0,
      offset |-> 330, zone |-> "IST", year |-> 987]}

BaseEvent ==
    [TemplateID |-> "git-config", Host |-> "https://example.com", Type |-> "http",
     Matched |-> "https://example.com/.git/config",
     Timestamp |-> CHOOSE t \in Timestamps : t.year = 2026,
     Request |-> "GET /.git/config HTTP/1.1\nHost: example.com",
     Response |-> "HTTP/1.1 200 OK\n\n[core]\n\tbare = false | *x* {code}",
     Info |-> InfoMap(0), ExtractedResults |-> <<>>, Metadata |-> MetaMap(0)]

\* the events the formatter is checked on: every combination of informational
\* entries, extracted results and metadata; those with metadata come from a DNS
\* template at another time
Events ==
    {[BaseEvent EXCEPT !.Info = InfoMap(n), !.ExtractedResults = x, !.Metadata = MetaMap(m),
                       !.Type = IF m = 0 THEN "http" ELSE "dns",
                       !.Timestamp = CHOOSE t \in Timestamps : (t.year = 2026) <=> (m = 0)]
        : n \in 0..MaxInfo, x \in ExtractedSeqs, m \in 0..MaxMeta}

-----------------------------------------------------------------------------
(* New *)

Callers == 1..NumCallers

\* the *Options a caller may pass to New; the last has a URL that does not parse
OptionsSet ==
    {[URL |-> "https://acme.atlassian.net", AccountID |-> "5b10ac8d82e05b22cc7d4ef5",
      Email |-> "sec@acme.io", Token |-> "s3cr3t", ProjectName |-> "SEC",
      IssueType |-> "Bug"],
     [URL |-> "https://jira.example.org/", AccountID |-> "712020:a1b2",
      Email |-> "bot@example.org", Token |-> "t0k3n", ProjectName |-> "VULN",
      IssueType |-> "Task"],
     [URL |-> ":jira.example.org", AccountID |-> "712020:a1b2",
      Email |-> "bot@example.org", Token |-> "t0k3n", ProjectName |-> "VULN",
      IssueType |-> "Task"]}

\* lines 39-42: the basic-auth transport carrying the credentials
BasicAuthTransport(options) == [Username |-> options.Email, Password |-> options.Token]

\* url.Parse as jira.NewClient uses it: a URL whose first character is ':' has no
\* scheme and does not parse
URLParseError(rawURL) ==
    IF Len(rawURL) > 0 /\ SubSeq(rawURL, 1, 1) = ":"
    THEN Errorf("parse \"" \o rawURL \o "\": missing protocol scheme")
    ELSE Nil

\* jira.NewClient (line 43): appends the trailing slash, parses the URL, opens no
\* connection
NewClient(httpClient, baseURL) ==
    LET url == IF Len(baseURL) > 0 /\ SubSeq(baseURL, Len(baseURL), Len(baseURL)) = "/"
               THEN baseURL ELSE baseURL \o "/"
    IN  IF URLParseError(url) # Nil
        THEN [client |-> Nil, err |-> URLParseError(url)]
        ELSE [client |-> [client |-> httpClient, baseURL |-> url], err |-> Nil]

\* a half-built integration returned along with the error
New_IntegrationWithError(options) ==
    /\ i = Nil
    /\ LET tp == BasicAuthTransport(options)
           r == NewClient(tp, options.URL)
       IN  /\ i' = [jira |-> r.client, options |-> options]
           /\ newErr' = r.err
    /\ cfg' = options
    /\ UNCHANGED <<pc, event, issueData, outcome, ret, calls, requests, lastSent, fmtVars>>

\* lines 38-48
New(options) ==
    /\ i = Nil
    /\ LET tp == BasicAuthTransport(options)
           r == NewClient(tp, options.URL)
       IN  IF r.err # Nil
           THEN /\ i' = Nil
                /\ newErr' = r.err
           ELSE /\ i' = [jira |-> r.client, options |-> options]
                /\ newErr' = Nil
    /\ cfg' = options
    /\ UNCHANGED <<pc, event, issueData, outcome, ret, calls, requests, lastSent, fmtVars>>

-----------------------------------------------------------------------------
(* CreateIssue *)

\* the events CreateIssue is called with
ProtoEvents ==
    {[BaseEvent EXCEPT !.Info = InfoMap(2), !.ExtractedResults = <<"[core]", "[core]">>],
     BaseEvent,
     [BaseEvent EXCEPT !.TemplateID = "dns-probe", !.Type = "dns", !.Host = "example.org",
                       !.Timestamp = CHOOSE t \in Timestamps : t.year # 2026,
                       !.Info = InfoMap(1), !.Metadata = MetaMap(2)]}

\* an http.Response body: its text and how many bytes of it Read delivers before it
\* fails (Len(text): the read reaches EOF)
Body(text, readable) == [text |-> text, readable |-> readable]

\* ioutil.ReadAll: the data read until EOF or an error, whichever comes first
ReadAll(body) == SubSeq(body.text, 1, body.readable)

BadProject == "{\"errorMessages\":[\"bad project\"]}"
RequestFailed(code) ==
    Errorf("request failed. Please analyze the request body for more details. Status code: "
           \o code)

\* what i.jira.Issue.Create can return (line 64) as (resp, err): the issue created;
\* the API rejecting the request, with its error body; the same with the body's
\* read failing part way; a response without a body; a transport failure with no
\* response; a 2xx whose payload go-jira has consumed and could not decode
CreateOutcomes ==
    {[resp |-> [StatusCode |-> "201", Body |-> Body("{\"key\":\"SEC-1\"}", 0)], err |-> Nil],
     [resp |-> [StatusCode |-> "400", Body |-> Body(BadProject, Len(BadProject))],
      err |-> RequestFailed("400")],
     [resp |-> [StatusCode |-> "400", Body |-> Body(BadProject, 12)],
      err |-> RequestFailed("400")],
     [resp |-> [StatusCode |-> "502", Body |-> Nil], err |-> RequestFailed("502")],
     [resp |-> Nil, err |-> Errorf("dial tcp 10.0.0.1:443: connect: connection refused")],
     [resp |-> [StatusCode |-> "200", Body |-> Body("<html>ok</html>", 0)],
      err |-> Errorf("could not unmarshall the data into struct")]}

\* the reporter taken from the e-mail address instead of the account id
Issue_ReporterEmail(options, e, description) ==
    [Fields |-> [Assignee |-> [AccountID |-> options.AccountID],
                 Reporter |-> [AccountID |-> options.Email],
                 Description |-> description,
                 Type |-> [Name |-> options.IssueType],
                 Project |-> [Key |-> options.ProjectName],
                 Summary |-> Summary(e)]]

\* lines 54-63
Issue(options, e, description) ==
    [Fields |-> [Assignee |-> [AccountID |-> options.AccountID],
                 Reporter |-> [AccountID |-> options.AccountID],
                 Description |-> description,
                 Type |-> [Name |-> options.IssueType],
                 Project |-> [Key |-> options.ProjectName],
                 Summary |-> Summary(e)]]

\* lines 52-64, up to the call of Issue.Create: the request leaves for the tracker
CreateIssue(c, e) ==
    /\ i # Nil
    /\ pc[c] \in {"idle", "returned"}
    /\ calls < MaxCalls
    /\ \E io \in Perms(DOMAIN e.Info), mo \in Perms(DOMAIN e.Metadata) :
          issueData' = [issueData EXCEPT
                          ![c] = Issue(i.options, e, jiraFormatDescription(e, io, mo))]
    /\ lastSent' = [event |-> e, issue |-> issueData'[c]]
    /\ event' = [event EXCEPT ![c] = e]
    /\ outcome' = [outcome EXCEPT ![c] = Unset]
    /\ ret' = [ret EXCEPT ![c] = Unset]
    /\ pc' = [pc EXCEPT ![c] = "waiting"]
    /\ calls' = calls + 1
    /\ requests' = requests + 1
    /\ UNCHANGED <<i, newErr, cfg, fmtVars>>

\* a failure without a response taken for a success
CreateIssueError_SwallowNoResponse(resp, err) ==
    IF err # Nil /\ resp # Nil
    THEN LET data == IF resp.Body # Nil THEN ReadAll(resp.Body) ELSE ""
         IN  Errorf(err.Error \o " => " \o data)
    ELSE Nil

\* the underlying error returned as it is, the body left unread
CreateIssueError_NoBody(resp, err) ==
    IF err # Nil THEN err ELSE Nil

\* lines 65-73: the error CreateIssue returns for what Issue.Create returned
CreateIssueError(resp, err) ==
    IF err # Nil
    THEN LET data == IF resp # Nil /\ resp.Body # Nil THEN ReadAll(resp.Body) ELSE ""
         IN  Errorf(err.Error \o " => " \o data)
    ELSE Nil

\* a failed create sent once more before the error is returned
CreateIssueReturn_Retry(c, o) ==
    /\ pc[c] = "waiting"
    /\ outcome' = [outcome EXCEPT ![c] = o]
    /\ ret' = [ret EXCEPT ![c] = CreateIssueError(o.resp, o.err)]
    /\ pc' = [pc EXCEPT ![c] = "returned"]
    /\ event' = [event EXCEPT ![c] = Unset]
    /\ issueData' = [issueData EXCEPT ![c] = Unset]
    /\ requests' = IF o.err # Nil THEN requests + 1 ELSE requests
    /\ UNCHANGED <<i, newErr, cfg, calls, lastSent, fmtVars>>

\* a failed create makes the integration fall back to another issue type
CreateIssueReturn_FallbackType(c, o) ==
    /\ pc[c] = "waiting"
    /\ outcome' = [outcome EXCEPT ![c] = o]
    /\ ret' = [ret EXCEPT ![c] = CreateIssueError(o.resp, o.err)]
    /\ pc' = [pc EXCEPT ![c] = "returned"]
    /\ event' = [event EXCEPT ![c] = Unset]
    /\ issueData' = [issueData EXCEPT ![c] = Unset]
    /\ i' = IF o.err # Nil THEN [i EXCEPT !.options.IssueType = "Task"] ELSE i
    /\ UNCHANGED <<newErr, cfg, calls, requests, lastSent, fmtVars>>

\* the response kept in a slot all the calls share: a call returns the result of
\* the call that returned last
CreateIssueReturn_SharedResponse(c, o) ==
    /\ pc[c] = "waiting"
    /\ outcome' = [outcome EXCEPT ![c] = o]
    /\ LET others == {d \in Callers : d # c /\ pc[d] = "returned"}
       IN  ret' = [ret EXCEPT ![c] = IF others # {}
                                     THEN ret[CHOOSE d \in others : TRUE]
                                     ELSE CreateIssueError(o.resp, o.err)]
    /\ pc' = [pc EXCEPT ![c] = "returned"]
    /\ event' = [event EXCEPT ![c] = Unset]
    /\ issueData' = [issueData EXCEPT ![c] = Unset]
    /\ UNCHANGED <<i, newErr, cfg, calls, requests, lastSent, fmtVars>>

\* lines 64-73, from the return of Issue.Create with (o.resp, o.err); the call's
\* locals go out of scope
CreateIssueReturn(c, o) ==
    /\ pc[c] = "waiting"
    /\ outcome' = [outcome EXCEPT ![c] = o]
    /\ ret' = [ret EXCEPT ![c] = CreateIssueError(o.resp, o.err)]
    /\ pc' = [pc EXCEPT ![c] = "returned"]
    /\ event' = [event EXCEPT ![c] = Unset]
    /\ issueData' = [issueData EXCEPT ![c] = Unset]
    /\ UNCHANGED <<i, newErr, cfg, calls, requests, lastSent, fmtVars>>

\* the state before New is called
InitProto ==
    /\ i = Nil
    /\ newErr = Unset
    /\ cfg = Unset
    /\ pc = [c \in Callers |-> "idle"]
    /\ event = [c \in Callers |-> Unset]
    /\ issueData = [c \in Callers |-> Unset]
    /\ outcome = [c \in Callers |-> Unset]
    /\ ret = [c \in Callers |-> Unset]
    /\ calls = 0
    /\ requests = 0
    /\ lastSent = Unset

Init ==
    /\ InitProto
    /\ fpc = "input"
    /\ fEvent = BaseEvent
    /\ fDesc = ""

Next ==
    \/ \E options \in OptionsSet : New(options)
    \/ \E c \in Callers, e \in ProtoEvents : CreateIssue(c, e)
    \/ \E c \in Callers, o \in CreateOutcomes : CreateIssueReturn(c, o)

Spec == Init /\ [][Next]_vars

-----------------------------------------------------------------------------
(* The formatter on its own *)

InitFmt ==
    /\ InitProto
    /\ fpc = "input"
    /\ fEvent \in Events
    /\ fDesc = ""

\* one call of jiraFormatDescription(fEvent)
FormatDescription ==
    /\ fpc = "input"
    /\ \E io \in Perms(DOMAIN fEvent.Info), mo \in Perms(DOMAIN fEvent.Metadata) :
          fDesc' = jiraFormatDescription(fEvent, io, mo)
    /\ fpc' = "formatted"
    /\ UNCHANGED <<fEvent, protoVars>>

\* the caller takes the next event
NextEvent ==
    /\ fpc = "formatted"
    /\ fEvent' \in Events
    /\ fDesc' = ""
    /\ fpc' = "input"
    /\ UNCHANGED protoVars

NextFmt == FormatDescription \/ NextEvent

SpecFmt == InitFmt /\ [][NextFmt]_vars

-----------------------------------------------------------------------------
(* Properties of jiraFormatDescription, checked under SpecFmt *)

\* the event's texts are single lines that are none of the formatter's own headings,
\* so a heading line in the description is one the formatter wrote
HasLine(ls, l) == \E k \in 1..Len(ls) : ls[k] = l
FirstLine(ls, l) == CHOOSE k \in 1..Len(ls) : ls[k] = l /\ \A j \in 1..(k - 1) : ls[j] # l

\* C6: the description holds the "Extra Information" section exactly when the event
\* has an extracted result or a metadata entry; inside the section the extracted
\* results list is there exactly when ExtractedResults is non-empty and the metadata
\* list exactly when Metadata is non-empty; with both empty the description ends
\* with the Response block
C6_ExtraInformationIff ==
    fpc = "formatted" =>
        LET fLines == Lines(fDesc)
            hasResults == Len(fEvent.ExtractedResults) > 0
            hasMeta == DOMAIN fEvent.Metadata # {}
        IN  /\ HasLine(fLines, "*Extra Information*") <=> (hasResults \/ hasMeta)
            /\ HasLine(fLines, "*Extracted results*:") <=> hasResults
            /\ HasLine(fLines, "*Metadata*:") <=> hasMeta
            /\ hasResults =>
                  /\ Cardinality(Positions(fLines, "*Extracted results*:")) = 1
                  /\ FirstLine(fLines, "*Extracted results*:") = FirstLine(fLines, "*Extra Information*") + 2
            /\ hasMeta =>
                  /\ Cardinality(Positions(fLines, "*Metadata*:")) = 1
                  /\ FirstLine(fLines, "*Metadata*:") > FirstLine(fLines, "*Extra Information*")
                  /\ hasResults => FirstLine(fLines, "*Metadata*:") > FirstLine(fLines, "*Extracted results*:")
            /\ ~(hasResults \/ hasMeta) =>
                  /\ ~Contains(fDesc, "Extra Information")
                  /\ SubSeq(fLines, Len(fLines) - 2, Len(fLines)) = <<"{code}", "", "">>

\* an event with metadata only has been formatted, and the section is there
C6_Witness ==
    /\ fpc = "formatted"
    /\ fEvent.ExtractedResults = <<>>
    /\ DOMAIN fEvent.Metadata # {}
    /\ HasLine(Lines(fDesc), "*Extra Information*")
    /\ ~HasLine(Lines(fDesc), "*Extracted results*:")

\* C7: for an event whose Info is non-empty, the lines between the "| Key | Value |"
\* header and the blank line before "*Request*" are the rows "| key | value |", one
\* for each entry of Info: every entry has exactly one row, and there are as many
\* rows as entries
C7_OneRowPerInfoEntry ==
    (fpc = "formatted" /\ DOMAIN fEvent.Info # {}) =>
        LET fLines == Lines(fDesc)
            n == Cardinality(DOMAIN fEvent.Info)
            h == FirstLine(fLines, "| Key | Value |")
            r == FirstLine(fLines, "*Request*")
            row(k) == "| " \o k \o " | " \o fEvent.Info[k] \o " |"
        IN  /\ Cardinality(Positions(fLines, "| Key | Value |")) = 1
            /\ Cardinality(Positions(fLines, "*Request*")) = 1
            /\ r = h + n + 2
            /\ fLines[r - 1] = ""
            /\ \A k \in DOMAIN fEvent.Info :
                  Cardinality({j \in (h + 1)..(h + n) : fLines[j] = row(k)}) = 1
            /\ \A j \in (h + 1)..(h + n) : \E k \in DOMAIN fEvent.Info : fLines[j] = row(k)

\* an event with two informational entries has been formatted, the entries visited
\* in the order opposite to that of InfoKeys
C7_Witness ==
    /\ fpc = "formatted"
    /\ Cardinality(DOMAIN fEvent.Info) = 2
    /\ Contains(fDesc, "| Key | Value |\n| severity | medium |\n| name | Git Config Disclosure |\n\n*Request*")

\* C8: for an event with extracted results, the lines that follow the
\* "*Extracted results*:" heading and its blank line are "- " followed by the j-th
\* extracted string, for j = 1 .. len, in that order, and a blank line ends the list:
\* one line per element, duplicates included
C8_ExtractedResultsInOrder ==
    (fpc = "formatted" /\ Len(fEvent.ExtractedResults) > 0) =>
        LET fLines == Lines(fDesc)
            n == Len(fEvent.ExtractedResults)
            p == FirstLine(fLines, "*Extracted results*:")
        IN  /\ HasLine(fLines, "*Extracted results*:")
            /\ fLines[p + 1] = ""
            /\ \A j \in 1..n : fLines[p + 1 + j] = "- " \o fEvent.ExtractedResults[j]
            /\ fLines[p + 2 + n] = ""

\* an event with two different extracted strings has been formatted
C8_Witness ==
    /\ fpc = "formatted"
    /\ Len(fEvent.ExtractedResults) >= 2
    /\ fEvent.ExtractedResults[1] = "bare = false"
    /\ fEvent.ExtractedResults[2] = "[core]"
    /\ Contains(fDesc, "*Extracted results*:\n\n- bare = false\n- [core]\n")

-----------------------------------------------------------------------------
(* Properties of New and CreateIssue, checked under Spec *)

IsError(v) == v # Nil /\ v # Unset
Returned(c) == pc[c] = "returned"

\* C1: after any sequence of CreateIssue invocations, as many create requests have
\* been handed to the tracker as there were invocations: one per invocation, be it
\* the first or a repetition, none added after a failure
C1_OneRequestPerCall == requests = calls

\* three invocations, one of which has failed, and three requests
C1_Witness ==
    /\ calls = 3
    /\ requests = 3
    /\ \E c \in Callers : Returned(c) /\ IsError(ret[c])
    /\ \E c \in Callers : pc[c] = "waiting"

\* C2: CreateIssue returns an error exactly when Issue.Create returned one
C2_ErrorIffCreateFailed ==
    \A c \in Callers : Returned(c) =>
        /\ ret[c] # Unset
        /\ (ret[c] # Nil) <=> (outcome[c].err # Nil)

\* one call has returned nil after a create that succeeded and another an error
\* after a create that failed without any response
C2_Witness ==
    \E c, d \in Callers :
        /\ Returned(c) /\ outcome[c].err = Nil /\ ret[c] = Nil
        /\ Returned(d) /\ outcome[d].err # Nil /\ outcome[d].resp = Nil /\ IsError(ret[d])

\* the text of the response body, and the part of it a read obtains
BodyPresent(o) == o.resp # Nil /\ o.resp.Body # Nil
BodyText(o) == IF BodyPresent(o) THEN o.resp.Body.text ELSE ""
BodyRead(o) == IF BodyPresent(o) THEN SubSeq(o.resp.Body.text, 1, o.resp.Body.readable) ELSE ""

\* C3 as claimed: the error of a failed create is the underlying error message
\* combined with the full text of the response body when there is one, and with an
\* empty body part when there is no response or no body
C3_FullBodyInError ==
    \A c \in Callers : (Returned(c) /\ outcome[c].err # Nil) =>
        /\ IsError(ret[c])
        /\ ret[c].Error = outcome[c].err.Error \o " => " \o BodyText(outcome[c])

\* C3 as amended: the error of a failed create is the underlying error message
\* combined with the text read from the response body: the full text when the read
\* reaches its end, what was read before the failure when the read fails, and an empty
\* body part when there is no response or no body
C3_ReadBodyInError ==
    \A c \in Callers : (Returned(c) /\ outcome[c].err # Nil) =>
        /\ IsError(ret[c])
        /\ ret[c].Error = outcome[c].err.Error \o " => " \o BodyRead(outcome[c])
        /\ (BodyPresent(outcome[c])
              /\ outcome[c].resp.Body.readable = Len(outcome[c].resp.Body.text))
           => Contains(ret[c].Error, outcome[c].resp.Body.text)

\* one failed create whose body was read to its end, "bad project" in the error
\* returned, and one whose body could be read only in part
C3_Witness ==
    \E c, d \in Callers :
        /\ Returned(c) /\ BodyPresent(outcome[c]) /\ BodyRead(outcome[c]) = BadProject
        /\ Contains(ret[c].Error, "bad project")
        /\ Returned(d) /\ outcome[d].err # Nil /\ BodyPresent(outcome[d])
        /\ BodyRead(outcome[d]) # BodyText(outcome[d])

\* C4: the request of a call carries the AccountID passed to New as assignee and as
\* reporter, the IssueType as type name, the ProjectName as project key, the summary
\* of the call's event and a description jiraFormatDescription yields for that event
C4_RequestFields ==
    \A c \in Callers : pc[c] = "waiting" =>
        LET f == issueData[c].Fields
        IN  /\ f.Assignee = [AccountID |-> cfg.AccountID]
            /\ f.Reporter = [AccountID |-> cfg.AccountID]
            /\ f.Type = [Name |-> cfg.IssueType]
            /\ f.Project = [Key |-> cfg.ProjectName]
            /\ f.Summary = Summary(event[c])
            /\ f.Description \in Descriptions(event[c])
            /\ DOMAIN f = {"Assignee", "Reporter", "Type", "Project", "Summary", "Description"}

\* two requests in flight under the second configuration, for different events
C4_Witness ==
    \E c, d \in Callers :
        /\ pc[c] = "waiting" /\ pc[d] = "waiting"
        /\ cfg.ProjectName = "VULN"
        /\ issueData[c].Fields.Project.Key = "VULN"
        /\ issueData[c].Fields.Summary # issueData[d].Fields.Summary

\* two requests built from the same event: equal field by field, the descriptions
\* equal up to the order in which the event's maps were visited
SameRequest(a, b, e) ==
    /\ [a.Fields EXCEPT !.Description = ""] = [b.Fields EXCEPT !.Description = ""]
    /\ a.Fields.Description \in Descriptions(e)
    /\ b.Fields.Description \in Descriptions(e)
    /\ (Cardinality(DOMAIN e.Info) <= 1 /\ Cardinality(DOMAIN e.Metadata) <= 1) => a = b

Malformed(url) == SubSeq(url, 1, 1) = ":"

\* C9: New returns an error and no integration when the client cannot be
\* initialised, and otherwise no error and an integration holding the options it
\* was given; no request has been sent as long as CreateIssue was not called
C9_New ==
    /\ cfg = Unset => (i = Nil /\ newErr = Unset)
    /\ cfg # Unset =>
          /\ Malformed(cfg.URL) => (IsError(newErr) /\ i = Nil)
          /\ ~Malformed(cfg.URL) => (newErr = Nil /\ i # Nil /\ i.options = cfg
                                      /\ i.jira # Nil)
    /\ calls = 0 => requests = 0

\* New has failed on the URL without a scheme
C9_Witness ==
    /\ cfg # Unset
    /\ Malformed(cfg.URL)
    /\ IsError(newErr)
    /\ i = Nil
    /\ requests = 0

\* C10: in every interleaving of the callers, each call in progress has a request
\* of its own built from its own event and the configuration, one request was sent
\* per call, and each returned call has the result of the outcome of its own request
C10_CallsIndependent ==
    /\ requests = calls
    /\ \A c \in Callers :
          /\ pc[c] = "waiting" =>
                issueData[c] \in {Issue(cfg, event[c], d) : d \in Descriptions(event[c])}
          /\ Returned(c) =>
                IF outcome[c].err = Nil THEN ret[c] = Nil
                ELSE /\ IsError(ret[c])
                     /\ ret[c].Error = outcome[c].err.Error \o " => " \o BodyRead(outcome[c])

\* two calls are in flight at once for different events, each with its own request
C10_Witness ==
    \E c, d \in Callers :
        /\ c # d
        /\ pc[c] = "waiting" /\ pc[d] = "waiting"
        /\ event[c] # event[d]
        /\ issueData[c] # issueData[d]

=============================================================================
